---------------------------- MODULE Spec2Model ----------------------------
(***************************************************************************)
(* A model of rustdocstring: the signature scanner (findNextSignatureBlock) *)
(* and the per-item documentation generators (generateFunctionDoc,          *)
(* generateStructDoc, generateEnumDoc).                                     *)
(*                                                                          *)
(* Text is modelled as text: a signature, a source line and a generated     *)
(* documentation line are TLA+ strings, and every regular expression of the *)
(* source is an operator that scans the string character by character the   *)
(* way the JavaScript regular expression does (leftmost match, greedy       *)
(* quantifiers, alternatives in order).                                     *)
(***************************************************************************)
EXTENDS Integers, Sequences, FiniteSets, TLC

VARIABLES
    pc,            \* position of the run: "ready" | "scanning" | "done"
    decl,          \* the Rust item the input text was written from
    line,          \* the signature text handed to a generator
    opts,          \* includeExamples, examplesOnlyForPublicOrExtern, includeSafetyDetails
    result,        \* what the generator returned: [ok, lines, text]
    buffer,        \* the scanner's document: a sequence of lines
    startLine,     \* the scanner's cursor line (zero-based)
    i,             \* the scanner's loop index (zero-based)
    collecting, signatureLines, braceDepth, parentDepth, itemType,
    insideAttribute, bracketBalance,
    scanned        \* what findNextSignatureBlock returned: [ok, lines, text]

genVars  == <<decl, line, opts, result>>
scanVars == <<buffer, startLine, i, collecting, signatureLines, braceDepth,
              parentDepth, itemType, insideAttribute, bracketBalance, scanned>>
vars     == <<pc, genVars, scanVars>>

-----------------------------------------------------------------------------
(* Characters and JavaScript string primitives.                            *)

Lower  == {"a","b","c","d","e","f","g","h","i","j","k","l","m",
           "n","o","p","q","r","s","t","u","v","w","x","y","z"}
Upper  == {"A","B","C","D","E","F","G","H","I","J","K","L","M",
           "N","O","P","Q","R","S","T","U","V","W","X","Y","Z"}
Digits == {"0","1","2","3","4","5","6","7","8","9"}
\* \w of a JavaScript regular expression
WordChars == Lower \cup Upper \cup Digits \cup {"_"}
\* \s of a JavaScript regular expression (the characters the inputs use)
Space == {" ", "\t", "\n"}

\* The character of s at position p (1-based); "" outside the string.
Ch(s, p) == IF 1 <= p /\ p <= Len(s) THEN SubSeq(s, p, p) ELSE ""

\* The text of s from position p to its end.
From(s, p) == IF p > Len(s) THEN "" ELSE SubSeq(s, p, Len(s))

\* Whether the literal w stands in s at position p.
Lit(s, p, w) == /\ p >= 1
                /\ p + Len(w) - 1 <= Len(s)
                /\ SubSeq(s, p, p + Len(w) - 1) = w

\* \b of a regular expression, at the gap before position p.
WordBoundary(s, p) == (Ch(s, p - 1) \in WordChars) # (Ch(s, p) \in WordChars)

\* \s* from position p: the first position that holds no white space.
RECURSIVE SkipWs(_, _)
SkipWs(s, p) == IF Ch(s, p) \in Space THEN SkipWs(s, p + 1) ELSE p

\* \w* from position p: the first position that holds no word character.
RECURSIVE SkipWord(_, _)
SkipWord(s, p) == IF Ch(s, p) \in WordChars THEN SkipWord(s, p + 1) ELSE p

\* [^...]* from position p: the first position at the end of s or holding one
\* of the characters of stop.
RECURSIVE SkipUntil(_, _, _)
SkipUntil(s, p, stop) ==
    IF p > Len(s) \/ Ch(s, p) \in stop THEN p ELSE SkipUntil(s, p + 1, stop)

\* String.prototype.trim
RECURSIVE TrimEnd(_)
TrimEnd(s) == IF Len(s) > 0 /\ Ch(s, Len(s)) \in Space
              THEN TrimEnd(SubSeq(s, 1, Len(s) - 1)) ELSE s
Trim(s) == TrimEnd(From(s, SkipWs(s, 1)))

\* String.prototype.startsWith / endsWith / includes
StartsWith(s, w) == Lit(s, 1, w)
EndsWith(s, w)   == Len(w) <= Len(s) /\ Lit(s, Len(s) - Len(w) + 1, w)
Includes(s, w)   == \E p \in 1..Len(s) : Lit(s, p, w)

\* String.prototype.split with a one-character separator: always at least
\* one piece, empty pieces kept.
RECURSIVE Split(_, _)
Split(s, sep) ==
    LET p == SkipUntil(s, 1, {sep})
    IN  IF p > Len(s) THEN <<s>>
        ELSE <<SubSeq(s, 1, p - 1)>> \o Split(From(s, p + 1), sep)

\* Array.prototype.map(s => s.trim())
TrimAll(xs) == [k \in 1..Len(xs) |-> Trim(xs[k])]

\* Array.prototype.filter(Boolean) on strings: the empty string is falsy.
RECURSIVE FilterNonEmpty(_)
FilterNonEmpty(xs) ==
    IF xs = <<>> THEN <<>>
    ELSE (IF Head(xs) = "" THEN <<>> ELSE <<Head(xs)>>) \o FilterNonEmpty(Tail(xs))

\* Array.prototype.join
RECURSIVE Join(_, _)
Join(xs, sep) ==
    IF xs = <<>> THEN ""
    ELSE IF Len(xs) = 1 THEN xs[1]
    ELSE xs[1] \o sep \o Join(Tail(xs), sep)

\* A number inside a template literal.
DigitStr == <<"0","1","2","3","4","5","6","7","8","9">>
NumStr(n) == IF n < 10 THEN DigitStr[n + 1]
             ELSE DigitStr[(n \div 10) + 1] \o DigitStr[(n % 10) + 1]

\* The least element of a non-empty set of numbers.
Min(S) == CHOOSE x \in S : \A y \in S : x <= y

\* The backquote of the generated Markdown. A TLA+ string cannot hold a
\* backquote; "@", which no input of the model contains, stands for it.
BT == "@"
Fence == BT \o BT \o BT

\* A generator's or the scanner's return value: a string, or null.
Null == [ok |-> FALSE, threw |-> FALSE, lines |-> <<>>, text |-> ""]

\* A call that ended in a TypeError (a property read of undefined or null).
Threw == [ok |-> FALSE, threw |-> TRUE, lines |-> <<>>, text |-> ""]

\* The return statement of every generator: the first line as it is, every
\* other line prefixed with the doc-comment marker, joined with newlines.
FormatDoc(lines) ==
    [ok |-> TRUE, threw |-> FALSE, lines |-> lines,
     text |-> Join([k \in 1..Len(lines) |->
                      IF k = 1 THEN lines[k] ELSE "/// " \o lines[k]], "\n")]

-----------------------------------------------------------------------------
(* Visibility and extern clauses (shared regular-expression fragments).    *)

\* (\s*\([^)]*\))  after "pub": where the group ends, 0 when it does not match.
ParenGroupEnd(s, p) ==
    LET q == SkipWs(s, p)
        r == SkipUntil(s, q + 1, {")"})
    IN  IF Ch(s, q) = "(" /\ r <= Len(s) THEN r + 1 ELSE 0

\* (\s+self) or (\s+super) after "pub": where it ends, 0 when it does not match.
WordGroupEnd(s, p, w) ==
    LET q == SkipWs(s, p)
    IN  IF q > p /\ Lit(s, q, w) THEN q + Len(w) ELSE 0

\* (\s*\([^)]*\)|\s+self|\s+super)?  after "pub": the positions at which the
\* optional group can end, in the order the regular expression tries them.
FnVisGroupEnds(s, p) ==
    LET a == ParenGroupEnd(s, p)
        b == WordGroupEnd(s, p, "self")
        c == WordGroupEnd(s, p, "super")
    IN  (IF a # 0 THEN <<a>> ELSE <<>>) \o (IF b # 0 THEN <<b>> ELSE <<>>)
        \o (IF c # 0 THEN <<c>> ELSE <<>>) \o <<p>>

\* (\s*"[^"]*")  after "extern": where the group ends, 0 when it does not match.
AbiGroupEnd(s, p) ==
    LET q == SkipWs(s, p)
        r == SkipUntil(s, q + 1, {"\""})
    IN  IF Ch(s, q) = "\"" /\ r <= Len(s) THEN r + 1 ELSE 0

\* /\b(pub(\s*\([^)]*\)|\s+self|\s+super)?|extern(\s*"[^"]*")?)\b/.test(line)
isPublicOrExtern(s) ==
    \E p \in 1..Len(s) :
        /\ WordBoundary(s, p)
        /\ \/ /\ Lit(s, p, "pub")
              /\ LET ends == FnVisGroupEnds(s, p + 3)
                 IN  \E k \in 1..Len(ends) : WordBoundary(s, ends[k])
           \/ /\ Lit(s, p, "extern")
              /\ \/ WordBoundary(s, p + 6)
                 \/ AbiGroupEnd(s, p + 6) # 0 /\ WordBoundary(s, AbiGroupEnd(s, p + 6))

\* pub<group>?\s+ at position p: where the match ends, 0 when there is none.
\* ends are the group's candidate ends in the order they are tried; \s+ needs
\* at least one white-space character after the group.
VisMatchEnd(s, p, ends) ==
    IF ~Lit(s, p, "pub") THEN 0
    ELSE LET good == {k \in 1..Len(ends) : SkipWs(s, ends[k]) > ends[k]}
         IN  IF good = {} THEN 0 ELSE SkipWs(s, ends[Min(good)])

\* line.replace(/pub(\s*\([^)]*\)|\s+self|\s+super)?\s+/, ''): the first match
\* only.
StripFnVisibility(s) ==
    LET hits == {p \in 1..Len(s) : VisMatchEnd(s, p, FnVisGroupEnds(s, p + 3)) # 0}
    IN  IF hits = {} THEN s
        ELSE LET p == Min(hits)
             IN  SubSeq(s, 1, p - 1) \o From(s, VisMatchEnd(s, p, FnVisGroupEnds(s, p + 3)))

-----------------------------------------------------------------------------
(* generateFunctionDoc                                                     *)

\* /\b(async)?\s*(unsafe)?\s*(extern\s*"[^"]*")?\s*fn/ tried at position p.
\* Each optional group is present exactly when its literal stands there: with
\* the group dropped, the next thing the expression needs (white space, another
\* keyword or fn) cannot start with the group's own first letter.
ModifierAt(s, p) ==
    LET a  == Lit(s, p, "async")
        p1 == SkipWs(s, IF a THEN p + 5 ELSE p)
        u  == Lit(s, p1, "unsafe")
        p2 == SkipWs(s, IF u THEN p1 + 6 ELSE p1)
        e  == Lit(s, p2, "extern") /\ AbiGroupEnd(s, p2 + 6) # 0
        p3 == SkipWs(s, IF e THEN AbiGroupEnd(s, p2 + 6) ELSE p2)
    IN  [matched |-> WordBoundary(s, p) /\ Lit(s, p3, "fn"),
         hasAsync |-> a, hasUnsafe |-> u, hasExtern |-> e]

\* cleanLine.match(...): the leftmost match; no match leaves every flag false.
modifierMatch(s) ==
    LET hits == {p \in 1..(Len(s) + 1) : ModifierAt(s, p).matched}
    IN  IF hits = {}
        THEN [matched |-> FALSE, hasAsync |-> FALSE, hasUnsafe |-> FALSE,
              hasExtern |-> FALSE]
        ELSE ModifierAt(s, Min(hits))

\* (?:->\s*([^;{]+))? at position p: the captured return type. When white
\* space follows the arrow and then `{`, `;` or the end, the expression gives
\* one white-space character back to the capture.
ReturnTypeAt(s, p) ==
    IF ~Lit(s, p, "->") THEN [present |-> FALSE, text |-> ""]
    ELSE LET t == p + 2
             u == SkipWs(s, t)
             v == SkipUntil(s, u, {";", "{"})
         IN  IF v > u THEN [present |-> TRUE, text |-> SubSeq(s, u, v - 1)]
             ELSE IF u > t THEN [present |-> TRUE, text |-> SubSeq(s, u - 1, u - 1)]
             ELSE [present |-> FALSE, text |-> ""]

\* /fn\s+(\w+)\s*\(([^)]*)\)\s*(?:->\s*([^;{]+))?/ tried at position p.
FnMatchAt(s, p) ==
    LET k == SkipWs(s, p + 2)
        w == SkipWord(s, k)
        o == SkipWs(s, w)
        c == SkipUntil(s, o + 1, {")"})
        m == /\ Lit(s, p, "fn")
             /\ k > p + 2
             /\ w > k
             /\ Ch(s, o) = "("
             /\ c <= Len(s)
    IN  IF ~m THEN [matched |-> FALSE]
        ELSE [matched |-> TRUE,
              name |-> SubSeq(s, k, w - 1),
              args |-> SubSeq(s, o + 1, c - 1),
              returnType |-> ReturnTypeAt(s, SkipWs(s, c + 1))]

fnMatch(s) ==
    LET hits == {p \in 1..Len(s) : FnMatchAt(s, p).matched}
    IN  IF hits = {} THEN [matched |-> FALSE] ELSE FnMatchAt(s, Min(hits))

\* The template literal of one parameter bullet.
ParamLine(argName, argType, tabStop) ==
    "- " \o BT \o argName \o BT \o " (" \o BT \o argType \o BT \o ") - ${" \o NumStr(tabStop)
        \o ":Describe this parameter.}"

\* The template literal of the return bullet.
ReturnLine(cleanedReturn, tabStop) ==
    "- " \o BT \o cleanedReturn \o BT \o " - ${" \o NumStr(tabStop)
        \o ":Describe the return value.}"

\* ParamNameType with an empty text for a missing second piece.
ParamNameType_EmptyType(param) ==
    LET pieces == TrimAll(Split(param, ":"))
    IN  [argName |-> pieces[1],
         argType |-> IF Len(pieces) >= 2 THEN pieces[2] ELSE ""]

\* const [argName, argType] = param.split(':').map(s => s.trim()): the first
\* two pieces; a missing second piece is undefined, which the template
\* literal prints as the word undefined.
ParamNameType(param) ==
    LET pieces == TrimAll(Split(param, ":"))
    IN  [argName |-> pieces[1],
         argType |-> IF Len(pieces) >= 2 THEN pieces[2] ELSE "undefined"]

\* args.split(',').map(p => p.trim()).filter(Boolean)
SplitArgs(args) == FilterNonEmpty(TrimAll(Split(args, ",")))

\* ... .map(param => `- ...${currentTabStop++}...`), currentTabStop from 2
ParamLines(args) ==
    LET ps == SplitArgs(args)
    IN  [k \in 1..Len(ps) |->
            ParamLine(ParamNameType(ps[k]).argName, ParamNameType(ps[k]).argType,
                      k + 1)]

\* /Result\s*<.+>/.test(cleanedReturn || '')
isFallible(t) ==
    \E p \in 1..Len(t) :
        /\ Lit(t, p, "Result")
        /\ LET q == SkipWs(t, p + 6)
           IN  /\ Ch(t, q) = "<"
               /\ \E r \in (q + 2)..Len(t) : Ch(t, r) = ">"

\* createExampleSection(name, currentTabStop, hasAsync, hasUnsafe).exampleLines
createExampleSection(name, currentTabStop, hasAsync, hasUnsafe) ==
    LET exampleContent ==
            IF hasAsync /\ hasUnsafe
            THEN <<"async {",
                   "  // SAFETY: The Caller guarantees all invariants are met.",
                   "  let result = unsafe { " \o name \o "().await };",
                   "};">>
            ELSE IF hasAsync
            THEN <<"async {", "  let result = " \o name \o "().await;", "};">>
            ELSE IF hasUnsafe
            THEN <<"// SAFETY: The Caller guarantees all invariants are met.",
                   "unsafe {", "  let _ = " \o name \o "();", "}">>
            ELSE <<"let _ = " \o name \o "();">>
    IN  <<"", "# Examples", "">>
        \o <<IF hasAsync \/ hasUnsafe THEN Fence \o "no_run" ELSE Fence>>
        \o <<"use crate::${" \o NumStr(currentTabStop) \o ":...};", "">>
        \o exampleContent
        \o <<Fence>>

\* ExamplesGate with the includeExamples test left out.
ExamplesGate_IgnoringInclude(includeExamples, examplesOnlyForPublicOrExtern, pubOrExtern) ==
    ~examplesOnlyForPublicOrExtern \/ pubOrExtern

\* The gate of the `# Examples` section of a function and of an enum.
ExamplesGate(includeExamples, examplesOnlyForPublicOrExtern, pubOrExtern) ==
    includeExamples /\ (~examplesOnlyForPublicOrExtern \/ pubOrExtern)

\* The `# Safety` section.
SafetyLines(hasUnsafe, hasExtern, includeSafetyDetails, tabStop) ==
    IF ~(hasUnsafe \/ hasExtern) THEN <<>>
    ELSE <<"", "# Safety", "">>
         \o (IF includeSafetyDetails
             THEN <<"- **The caller must ensure that:**",
                    "  - Any internal state or memory accessed by this function is in a valid state.",
                    "  - Preconditions specific to this function's logic are satisfied.",
                    "  - This function is only called in the correct program state to avoid UB.">>
             ELSE <<>>)
         \o (IF hasUnsafe
             THEN <<"- **This function is " \o BT \o "unsafe" \o BT \o " because:**",
                    "  - ${" \o NumStr(tabStop) \o ":Describe unsafe behavior.}">>
             ELSE <<>>)

\* const cleanedReturn = returnType ? returnType.trim() : null  (null and ""
\* are both falsy, and both print nothing)
CleanedReturn(fm) == IF fm.returnType.present THEN Trim(fm.returnType.text) ELSE ""

\* docLines and currentTabStop after the description line and the
\* `# Arguments` section.
ArgumentsSection(params) ==
    [docLines |-> <<" ${1:Describe this function.}">>
                  \o (IF Len(params) > 0
                      THEN <<"", "# Arguments", "">> \o params ELSE <<>>),
     currentTabStop |-> 2 + Len(params)]

\* docLines and currentTabStop after the `# Returns` section.
ReturnsSection(doc, cleanedReturn) ==
    IF cleanedReturn # ""
    THEN [docLines |-> doc.docLines
                       \o <<"", "# Returns", "",
                            ReturnLine(cleanedReturn, doc.currentTabStop)>>,
          currentTabStop |-> doc.currentTabStop + 1]
    ELSE doc

\* SafetySection that leaves currentTabStop as it was.
SafetySection_NotCounting(doc, hasUnsafe, hasExtern, includeSafetyDetails) ==
    [docLines |-> doc.docLines
                  \o SafetyLines(hasUnsafe, hasExtern, includeSafetyDetails,
                                 doc.currentTabStop),
     currentTabStop |-> doc.currentTabStop]

\* docLines and currentTabStop after the `# Safety` section.
SafetySection(doc, hasUnsafe, hasExtern, includeSafetyDetails) ==
    [docLines |-> doc.docLines
                  \o SafetyLines(hasUnsafe, hasExtern, includeSafetyDetails,
                                 doc.currentTabStop),
     currentTabStop |-> IF hasUnsafe THEN doc.currentTabStop + 1
                        ELSE doc.currentTabStop]

\* ErrorsSection that puts its lines right under the description line.
ErrorsSection_UnderDescription(doc, fallible) ==
    IF fallible
    THEN [docLines |-> <<Head(doc.docLines)>>
                       \o <<"", "# Errors", "",
                            "${" \o NumStr(doc.currentTabStop)
                                \o ":Describe possible errors.}">>
                       \o Tail(doc.docLines),
          currentTabStop |-> doc.currentTabStop + 1]
    ELSE doc

\* docLines and currentTabStop after the `# Errors` section.
ErrorsSection(doc, fallible) ==
    IF fallible
    THEN [docLines |-> doc.docLines
                       \o <<"", "# Errors", "",
                            "${" \o NumStr(doc.currentTabStop)
                                \o ":Describe possible errors.}">>,
          currentTabStop |-> doc.currentTabStop + 1]
    ELSE doc

\* docLines after the `# Examples` section.
ExamplesSection(doc, gate, name, hasAsync, hasUnsafe) ==
    IF gate
    THEN doc.docLines \o createExampleSection(name, doc.currentTabStop, hasAsync, hasUnsafe)
    ELSE doc.docLines

\* The function body from the test of fnMatch on.
FunctionDocOf(fm, mods, pubOrExtern, includeExamples, examplesOnlyForPublicOrExtern, includeSafetyDetails) ==
    IF ~fm.matched THEN Null
    ELSE FormatDoc(
           ExamplesSection(
             ErrorsSection(
               SafetySection(
                 ReturnsSection(ArgumentsSection(ParamLines(fm.args)),
                                CleanedReturn(fm)),
                 mods.hasUnsafe, mods.hasExtern, includeSafetyDetails),
               isFallible(CleanedReturn(fm))),
             ExamplesGate(includeExamples, examplesOnlyForPublicOrExtern, pubOrExtern),
             fm.name, mods.hasAsync, mods.hasUnsafe))

\* The function body from cleanLine on.
FunctionDocFrom(cleanLine, pubOrExtern, includeExamples, examplesOnlyForPublicOrExtern, includeSafetyDetails) ==
    FunctionDocOf(fnMatch(cleanLine), modifierMatch(cleanLine), pubOrExtern,
                  includeExamples, examplesOnlyForPublicOrExtern, includeSafetyDetails)

generateFunctionDoc(ln, includeExamples, examplesOnlyForPublicOrExtern, includeSafetyDetails) ==
    FunctionDocFrom(StripFnVisibility(ln), isPublicOrExtern(ln),
                    includeExamples, examplesOnlyForPublicOrExtern, includeSafetyDetails)

-----------------------------------------------------------------------------
(* generateStructDoc                                                       *)

\* /struct\s+\w+\s*(;|\{\})/.test(line)
isUnitStruct(s) ==
    \E p \in 1..Len(s) :
        LET k == SkipWs(s, p + 6)
            w == SkipWord(s, k)
            o == SkipWs(s, w)
        IN  /\ Lit(s, p, "struct")
            /\ k > p + 6
            /\ w > k
            /\ (Ch(s, o) = ";" \/ Lit(s, o, "{}"))

\* (\s*\([^)]*\))?  after "pub": the candidate ends of the optional group.
StructVisGroupEnds(s, p) ==
    LET a == ParenGroupEnd(s, p)
    IN  (IF a # 0 THEN <<a>> ELSE <<>>) \o <<p>>

\* field.replace(/pub(\s*\([^)]*\))?\s+/, ''): the first match only.
StripFieldVisibility(s) ==
    LET hits == {p \in 1..Len(s) : VisMatchEnd(s, p, StructVisGroupEnds(s, p + 3)) # 0}
    IN  IF hits = {} THEN s
        ELSE LET p == Min(hits)
             IN  SubSeq(s, 1, p - 1)
                 \o From(s, VisMatchEnd(s, p, StructVisGroupEnds(s, p + 3)))

\* line.replace(/pub(\s*\([^)]*\))?\s+/g, ''): every match, left to right.
RECURSIVE StripAllVisibility(_)
StripAllVisibility(s) ==
    LET hits == {p \in 1..Len(s) : VisMatchEnd(s, p, StructVisGroupEnds(s, p + 3)) # 0}
    IN  IF hits = {} THEN s
        ELSE LET p == Min(hits)
             IN  SubSeq(s, 1, p - 1)
                 \o StripAllVisibility(
                        From(s, VisMatchEnd(s, p, StructVisGroupEnds(s, p + 3))))

\* The last position of s that holds character c, 0 when there is none.
LastIndexOf(s, c) ==
    LET hits == {p \in 1..Len(s) : Ch(s, p) = c}
    IN  IF hits = {} THEN 0 ELSE CHOOSE p \in hits : \A q \in hits : q <= p

\* /struct\s+(\w+)\s*(\([^)]*\)|\{[\s\S]*\})/ tried at position p.
StructMatchAt(s, p) ==
    LET k  == SkipWs(s, p + 6)
        w  == SkipWord(s, k)
        o  == SkipWs(s, w)
        c  == SkipUntil(s, o + 1, {")"})
        l  == LastIndexOf(s, "}")
        hd == Lit(s, p, "struct") /\ k > p + 6 /\ w > k
    IN  IF hd /\ Ch(s, o) = "(" /\ c <= Len(s)
        THEN [matched |-> TRUE, name |-> SubSeq(s, k, w - 1),
              body |-> SubSeq(s, o, c)]
        ELSE IF hd /\ Ch(s, o) = "{" /\ l > o
        THEN [matched |-> TRUE, name |-> SubSeq(s, k, w - 1),
              body |-> SubSeq(s, o, l)]
        ELSE [matched |-> FALSE]

structMatch(s) ==
    LET hits == {p \in 1..Len(s) : StructMatchAt(s, p).matched}
    IN  IF hits = {} THEN [matched |-> FALSE] ELSE StructMatchAt(s, Min(hits))

\* body.slice(1, -1)
Inner(body) == SubSeq(body, 2, Len(body) - 1)

\* The template literals of the field bullets.
FieldLine(fieldName, fieldType, tabStop) ==
    "- " \o BT \o fieldName \o BT \o " (" \o BT \o fieldType \o BT \o ") - ${"
        \o NumStr(tabStop) \o ":Describe this field.}"
TupleFieldLine(k, type, tabStop) ==
    "- " \o BT \o "field_" \o NumStr(k) \o BT \o " (" \o BT \o type \o BT \o ") - ${"
        \o NumStr(tabStop) \o ":Describe this tuple field.}"

\* const [fieldName, fieldType] = cleanedField.split(':').map(s => s.trim())
\* (a missing second piece is undefined, which is falsy like "")
FieldNameType(field) ==
    LET pieces == TrimAll(Split(Trim(StripFieldVisibility(field)), ":"))
    IN  [fieldName |-> pieces[1],
         fieldType |-> IF Len(pieces) >= 2 THEN pieces[2] ELSE ""]

\* The loop over fieldList: a bullet, and a tab stop, only for an entry with
\* a name and a type.
RECURSIVE FieldBullets(_, _)
FieldBullets(fieldList, tabStop) ==
    IF fieldList = <<>> THEN <<>>
    ELSE LET f == FieldNameType(Head(fieldList))
         IN  IF f.fieldName # "" /\ f.fieldType # ""
             THEN <<FieldLine(f.fieldName, f.fieldType, tabStop)>>
                  \o FieldBullets(Tail(fieldList), tabStop + 1)
             ELSE FieldBullets(Tail(fieldList), tabStop)

\* field.match(/`([^`]+)`/)[1]: the first non-empty text between backquotes.
FirstBackquoted(s) ==
    LET hits == {p \in 1..Len(s) :
                    /\ Ch(s, p) = BT
                    /\ SkipUntil(s, p + 1, {BT}) > p + 1
                    /\ SkipUntil(s, p + 1, {BT}) <= Len(s)}
    IN  IF hits = {} THEN ""
        ELSE SubSeq(s, Min(hits) + 1, SkipUntil(s, Min(hits) + 1, {BT}) - 1)

\* The example literal: a brace literal of the documented fields, or a
\* positional literal of as many values as the body has types.
StructExample(name, braces, fields, arity) ==
    IF braces
    THEN <<"let s = " \o name \o " {">>
         \o [k \in 1..Len(fields) |->
                "    " \o FirstBackquoted(fields[k]) \o ": value,"]
         \o <<"};">>
    ELSE <<"let s = " \o name \o "("
           \o Join([k \in 1..arity |-> "value"], ", ") \o ");">>

\* The template, from the field bullets.
StructTemplate(name, braces, fields, arity) ==
    FormatDoc(<<" ${1:Describe this struct.}">>
              \o (IF Len(fields) > 0 THEN <<"", "# Fields", "">> \o fields ELSE <<>>)
              \o <<"", "# Examples", "", Fence,
                   "use crate::${" \o NumStr(2 + Len(fields)) \o ":...};", "">>
              \o StructExample(name, braces, fields, arity)
              \o <<Fence>>)

\* The field bullets of a brace body or of a parenthesized body, from the
\* trimmed, non-empty pieces between its commas.
StructFields(braces, types) ==
    IF braces THEN FieldBullets(types, 2)
    ELSE [k \in 1..Len(types) |-> TupleFieldLine(k - 1, types[k], k + 1)]

\* The struct body from the name and the trimmed body on.
StructDocFrom(name, body, braces, types) ==
    StructTemplate(name, braces, StructFields(braces, types), Len(types))

\* The struct body from the test of structMatch on.
StructDocOf(sm) ==
    IF ~sm.matched THEN Null
    ELSE StructDocFrom(sm.name, Trim(sm.body), StartsWith(Trim(sm.body), "{"),
                       FilterNonEmpty(TrimAll(Split(Inner(Trim(sm.body)), ","))))

generateStructDoc(ln) ==
    IF isUnitStruct(ln) THEN Null
    ELSE StructDocOf(structMatch(StripAllVisibility(ln)))

-----------------------------------------------------------------------------
(* generateEnumDoc and splitEnumVariants                                   *)

\* SplitVariantsFrom with the brace depth left out of the comma test.
RECURSIVE SplitVariantsFrom_IgnoringBraces(_, _, _, _, _)
SplitVariantsFrom_IgnoringBraces(body, p, cur, brace, paren) ==
    IF p > Len(body)
    THEN (IF Trim(cur) # "" THEN <<Trim(cur)>> ELSE <<>>)
    ELSE LET c  == Ch(body, p)
             p1 == IF c = "(" THEN paren + 1 ELSE IF c = ")" THEN paren - 1 ELSE paren
         IN  IF c = "," /\ p1 = 0
             THEN <<Trim(cur)>> \o SplitVariantsFrom_IgnoringBraces(body, p + 1, "", brace, p1)
             ELSE SplitVariantsFrom_IgnoringBraces(body, p + 1, cur \o c, brace, p1)

\* The loop of splitEnumVariants from character p on: cur is `current`, and
\* brace and paren are the running depths.
RECURSIVE SplitVariantsFrom(_, _, _, _, _)
SplitVariantsFrom(body, p, cur, brace, paren) ==
    IF p > Len(body)
    THEN (IF Trim(cur) # "" THEN <<Trim(cur)>> ELSE <<>>)
    ELSE LET c  == Ch(body, p)
             b1 == IF c = "{" THEN brace + 1 ELSE IF c = "}" THEN brace - 1 ELSE brace
             p1 == IF c = "(" THEN paren + 1 ELSE IF c = ")" THEN paren - 1 ELSE paren
         IN  IF c = "," /\ b1 = 0 /\ p1 = 0
             THEN <<Trim(cur)>> \o SplitVariantsFrom(body, p + 1, "", b1, p1)
             ELSE SplitVariantsFrom(body, p + 1, cur \o c, b1, p1)

splitEnumVariants(body) == SplitVariantsFrom(body, 1, "", 0, 0)

\* String.prototype.toLowerCase
UpperSeq == <<"A","B","C","D","E","F","G","H","I","J","K","L","M",
              "N","O","P","Q","R","S","T","U","V","W","X","Y","Z">>
LowerSeq == <<"a","b","c","d","e","f","g","h","i","j","k","l","m",
              "n","o","p","q","r","s","t","u","v","w","x","y","z">>
LowerCh(c) == IF c \in Upper
              THEN LowerSeq[CHOOSE k \in 1..26 : UpperSeq[k] = c] ELSE c
RECURSIVE toLowerCase(_)
toLowerCase(s) == IF s = "" THEN "" ELSE LowerCh(Ch(s, 1)) \o toLowerCase(From(s, 2))

\* line.replace(/\/\/.*$/, ''): from the first `//` that no line break
\* follows, to the end.
StripTrailingComment(s) ==
    LET hits == {p \in 1..Len(s) :
                    Lit(s, p, "//") /\ SkipUntil(s, p, {"\n"}) > Len(s)}
    IN  IF hits = {} THEN s ELSE SubSeq(s, 1, Min(hits) - 1)

\* /enum\s+(\w+)(?:\s*<[^>]+>)?\s*\{([\s\S]+)\}/ tried at position p.
EnumMatchAt(s, p) ==
    LET k == SkipWs(s, p + 4)
        w == SkipWord(s, k)
        q == SkipWs(s, w)
        r == SkipUntil(s, q + 1, {">"})
        g == IF Ch(s, q) = "<" /\ r > q + 1 /\ r <= Len(s) THEN r + 1 ELSE w
        o == SkipWs(s, g)
        l == LastIndexOf(s, "}")
    IN  IF Lit(s, p, "enum") /\ k > p + 4 /\ w > k /\ Ch(s, o) = "{" /\ l > o + 1
        THEN [matched |-> TRUE, name |-> SubSeq(s, k, w - 1),
              body |-> SubSeq(s, o + 1, l - 1)]
        ELSE [matched |-> FALSE]

enumMatch(s) ==
    LET hits == {p \in 1..Len(s) : EnumMatchAt(s, p).matched}
    IN  IF hits = {} THEN [matched |-> FALSE] ELSE EnumMatchAt(s, Min(hits))

\* /^(\w+)$/, /^(\w+)\s*\((.+)\)$/ and /^(\w+)\s*\{(.+)\}$/ on one variant:
\* its style, its name and the text between its brackets.
VariantShape(v) ==
    LET w == SkipWord(v, 1)
        o == SkipWs(v, w)
        inner == SubSeq(v, o + 1, Len(v) - 1)
        wrapped(open, close) ==
            /\ w > 1
            /\ Ch(v, o) = open
            /\ Len(v) > o + 1
            /\ Ch(v, Len(v)) = close
            /\ SkipUntil(v, o + 1, {"\n"}) > Len(v)
    IN  IF w > 1 /\ w > Len(v)
        THEN [style |-> "unit", name |-> v, inner |-> ""]
        ELSE IF wrapped("(", ")")
        THEN [style |-> "tuple", name |-> SubSeq(v, 1, w - 1), inner |-> inner]
        ELSE IF wrapped("{", "}")
        THEN [style |-> "fields", name |-> SubSeq(v, 1, w - 1), inner |-> inner]
        ELSE [style |-> "unknown", name |-> v, inner |-> ""]

\* fields.map(f => f.split(':')[0].trim())
FieldNames(inner) ==
    LET fields == FilterNonEmpty(TrimAll(Split(inner, ",")))
    IN  [k \in 1..Len(fields) |-> Trim(Split(fields[k], ":")[1])]

\* The `# Variants` bullet of one variant.
VariantLine(v, tabStop) ==
    LET sh   == VariantShape(v)
        slot == " - ${" \o NumStr(tabStop)
    IN  CASE sh.style = "unit" ->
               "- " \o BT \o sh.name \o BT \o slot \o ":Describe this variant.}"
          [] sh.style = "tuple" ->
               "- " \o BT \o sh.name \o "(" \o Join(TrimAll(Split(sh.inner, ",")), ", ")
                   \o ")" \o BT \o slot \o ":Describe this tuple variant.}"
          [] sh.style = "fields" ->
               "- " \o BT \o sh.name \o " { " \o Join(FieldNames(sh.inner), ", ")
                   \o " }" \o BT \o slot \o ":Describe this field variant.}"
          [] OTHER ->
               "- " \o BT \o v \o BT \o slot \o ":Describe this variant.}"

\* The match arm of one variant.
VariantArm(name, v) ==
    LET sh    == VariantShape(v)
        types == TrimAll(Split(sh.inner, ","))
    IN  CASE sh.style = "unit" ->
               "    " \o name \o "::" \o sh.name \o " => handle_unit,"
          [] sh.style = "tuple" ->
               "    " \o name \o "::" \o sh.name \o "("
                   \o Join([k \in 1..Len(types) |-> "v" \o NumStr(k - 1)], ", ")
                   \o ") => handle_tuple,"
          [] sh.style = "fields" ->
               "    " \o name \o "::" \o sh.name \o " { "
                   \o Join(FieldNames(sh.inner), ", ") \o " } => handle_fields,"
          [] OTHER ->
               "    " \o name \o "::" \o v \o " => handle_unknown,"

\* DefaultVariant without the cut at the payload.
DefaultVariant_WholeText(v) == Trim(v)

\* variants[0].split(/[({]/)[0].trim()
DefaultVariant(v) == Trim(SubSeq(v, 1, SkipUntil(v, 1, {"(", "{"}) - 1))

\* The lines of the `# Examples` section of an enum.
EnumExample(name, lower, variants) ==
    <<"", "# Examples", "", Fence,
      "use crate::${" \o NumStr(2 + Len(variants)) \o ":...};", "",
      "let " \o lower \o " = " \o name \o "::" \o DefaultVariant(variants[1]) \o ";",
      "match " \o lower \o " {">>
    \o [k \in 1..Len(variants) |-> VariantArm(name, variants[k])]
    \o <<"}", Fence>>

\* The enum body from the variants on; variants[0] of an empty list is
\* undefined, and .split of undefined throws.
EnumDocFrom(name, variants, gate) ==
    IF variants = <<>> THEN Threw
    ELSE FormatDoc(<<" ${1:Describe this enum.}", "", "# Variants", "">>
                   \o [k \in 1..Len(variants) |-> VariantLine(variants[k], k + 1)]
                   \o (IF gate THEN EnumExample(name, toLowerCase(name), variants)
                       ELSE <<>>))

\* The enum body from the test of enumMatch on.
EnumDocOf(em, gate) ==
    IF ~em.matched THEN Null
    ELSE EnumDocFrom(em.name, splitEnumVariants(Trim(em.body)), gate)

generateEnumDoc(ln, includeExamples, examplesOnlyForPublicOrExtern) ==
    EnumDocOf(enumMatch(Trim(StripTrailingComment(ln))),
              ExamplesGate(includeExamples, examplesOnlyForPublicOrExtern,
                           isPublicOrExtern(ln)))

-----------------------------------------------------------------------------
(* The inputs: Rust items, and the signature text each is written as.      *)

MaxParams   == 2    \* parameters of a function
MaxFields   == 2    \* fields of a struct
MaxVariants == 2    \* variants of an enum

\* All sequences over S of a length from lo to hi.
SeqsOf(S, lo, hi) == UNION {[1..n -> S] : n \in lo..hi}

Options == [includeExamples : BOOLEAN,
            examplesOnlyForPublicOrExtern : BOOLEAN,
            includeSafetyDetails : BOOLEAN]

VisClauses    == {"", "pub", "pub(crate)", "pub(self)", "pub(super)", "pub(in a::b)"}
ExternClauses == {"", "extern \"C\"", "extern"}

\* A parameter is a name and a type; a receiver has no type.
ParamPool == {[name |-> "a",    type |-> "u8"],
              [name |-> "m",    type |-> "Map<K, V>"],
              [name |-> "p",    type |-> "(u8, u8)"],
              [name |-> "e",    type |-> "io::E"],
              [name |-> "self", type |-> ""],
              [name |-> "&self", type |-> ""],
              [name |-> "&mut self", type |-> ""]}
\* A receiver comes first.
ParamLists == {ps \in SeqsOf(ParamPool, 0, MaxParams) :
                  \A k \in 2..Len(ps) : ps[k].type # ""}

ReturnTypes == {"", "u8", "Result<T, E>", "Option<Result<T, E>>", "MyResult<T>",
                "[u8; 4]", "extern \"C\" fn()"}

\* Functions of every visibility and modifier combination, and private plain
\* functions of every parameter list and return type.
FnDecls ==
    {[kind |-> "fn", vis |-> v, async |-> a, unsafe |-> u, extern |-> x,
      name |-> "f", params |-> ps, ret |-> r] :
        v \in VisClauses, a \in BOOLEAN, u \in BOOLEAN, x \in ExternClauses,
        ps \in {<<[name |-> "a", type |-> "u8"]>>}, r \in {"", "Result<T, E>"}}
    \cup
    {[kind |-> "fn", vis |-> "", async |-> FALSE, unsafe |-> FALSE, extern |-> "",
      name |-> "f", params |-> ps, ret |-> r] :
        ps \in ParamLists, r \in ReturnTypes}

Word(w) == IF w = "" THEN "" ELSE w \o " "

ParamText(p) == IF p.type = "" THEN p.name ELSE p.name \o ": " \o p.type

FnText(d) ==
    Word(d.vis) \o (IF d.async THEN "async " ELSE "")
    \o (IF d.unsafe THEN "unsafe " ELSE "") \o Word(d.extern)
    \o "fn " \o d.name \o "("
    \o Join([k \in 1..Len(d.params) |-> ParamText(d.params[k])], ", ")
    \o ")" \o (IF d.ret = "" THEN "" ELSE " -> " \o d.ret) \o " {"

\* Structs: without members in three spellings, with named fields, and tuples.
FieldNameAt == <<"x", "y", "z", "w">>
FieldPool   == [vis : {"", "pub", "pub(crate)"}, type : {"u8", "io::E", "Map<K, V>"}]
TupleTypes  == {"u8", "Vec<u8>", "io::E", "Map<K, V>"}

StructDecls ==
    {[kind |-> "struct", vis |-> v, name |-> "S", style |-> st, fields |-> <<>>] :
        v \in {"", "pub"}, st \in {"unit;", "unit{}", "unit{ }"}}
    \cup
    {[kind |-> "struct", vis |-> v, name |-> "S", style |-> "fields", fields |-> fs] :
        v \in {"", "pub"}, fs \in SeqsOf(FieldPool, 1, MaxFields)}
    \cup
    {[kind |-> "struct", vis |-> "", name |-> "S", style |-> "tuple", fields |-> fs] :
        fs \in SeqsOf([vis : {""}, type : TupleTypes], 1, MaxFields)}

StructText(d) ==
    Word(d.vis) \o "struct " \o d.name \o
    (CASE d.style = "unit;"   -> ";"
       [] d.style = "unit{}"  -> " {}"
       [] d.style = "unit{ }" -> " { }"
       [] d.style = "fields"  ->
            " { " \o Join([k \in 1..Len(d.fields) |->
                             Word(d.fields[k].vis) \o FieldNameAt[k] \o ": "
                                 \o d.fields[k].type], ", ") \o " }"
       [] d.style = "tuple"   ->
            "(" \o Join([k \in 1..Len(d.fields) |-> d.fields[k].type], ", ") \o ");")

\* Enums.
VariantPool == {"A", "B(u8)", "C { x: u32 }", "D(u8, u8)", "E { x: u8, y: u8 }"}

\* An enum is written with or without a comma after its last variant.
EnumDecls ==
    {[kind |-> "enum", vis |-> v, name |-> "Color", variants |-> vs, trailing |-> t] :
        v \in {"", "pub"}, vs \in SeqsOf(VariantPool, 1, MaxVariants), t \in BOOLEAN}

EnumText(d) ==
    Word(d.vis) \o "enum " \o d.name \o " { "
    \o Join(d.variants, ", ") \o (IF d.trailing THEN "," ELSE "") \o " }"

SignatureText(d) ==
    CASE d.kind = "fn"     -> FnText(d)
      [] d.kind = "struct" -> StructText(d)
      [] d.kind = "enum"   -> EnumText(d)

-----------------------------------------------------------------------------
(* The generators as a state machine: an item is chosen, its signature is  *)
(* handed to the generator of its kind, and the generator returns.         *)

ScanIdle ==
    /\ buffer = <<>> /\ startLine = 0 /\ i = 0
    /\ collecting = FALSE /\ signatureLines = <<>>
    /\ braceDepth = 0 /\ parentDepth = 0 /\ itemType = ""
    /\ insideAttribute = FALSE /\ bracketBalance = 0
    /\ scanned = Null

Init ==
    /\ pc = "ready"
    /\ decl \in FnDecls \cup StructDecls \cup EnumDecls
    /\ line = SignatureText(decl)
    /\ opts \in Options
    /\ result = Null
    /\ ScanIdle

GenerateFunctionDoc ==
    /\ pc = "ready"
    /\ decl.kind = "fn"
    /\ result' = generateFunctionDoc(line, opts.includeExamples,
                                     opts.examplesOnlyForPublicOrExtern,
                                     opts.includeSafetyDetails)
    /\ pc' = "done"
    /\ UNCHANGED <<decl, line, opts, scanVars>>

GenerateStructDoc ==
    /\ pc = "ready"
    /\ decl.kind = "struct"
    /\ result' = generateStructDoc(line)
    /\ pc' = "done"
    /\ UNCHANGED <<decl, line, opts, scanVars>>

GenerateEnumDoc ==
    /\ pc = "ready"
    /\ decl.kind = "enum"
    /\ result' = generateEnumDoc(line, opts.includeExamples,
                                 opts.examplesOnlyForPublicOrExtern)
    /\ pc' = "done"
    /\ UNCHANGED <<decl, line, opts, scanVars>>

Next == GenerateFunctionDoc \/ GenerateStructDoc \/ GenerateEnumDoc

Spec == Init /\ [][Next]_vars

-----------------------------------------------------------------------------
(* The dispatcher: generateDocComment and its classifier getRustItemType.   *)

\* /<keyword>\s+\w+/ tried at position p: the position after the name, 0
\* when there is no match.
KeywordNameEnd(s, p, kw) ==
    IF /\ Lit(s, p, kw)
       /\ SkipWs(s, p + Len(kw)) > p + Len(kw)
       /\ SkipWord(s, SkipWs(s, p + Len(kw))) > SkipWs(s, p + Len(kw))
    THEN SkipWord(s, SkipWs(s, p + Len(kw))) ELSE 0

\* /fn\s+\w+\s*\(/.test(line)
IsFunctionLine(s) ==
    \E p \in 1..Len(s) : /\ KeywordNameEnd(s, p, "fn") # 0
                         /\ Ch(s, SkipWs(s, KeywordNameEnd(s, p, "fn"))) = "("

\* /struct\s+\w+/.test(line) and /enum\s+\w+/.test(line)
IsKeywordLine(s, kw) == \E p \in 1..Len(s) : KeywordNameEnd(s, p, kw) # 0

\* The three tests in their order; "null" is the null of the source. The
\* tests for trait and union are commented out in the source.
getRustItemType(ln) ==
    IF IsFunctionLine(ln) THEN "function"
    ELSE IF IsKeywordLine(ln, "struct") THEN "struct"
    ELSE IF IsKeywordLine(ln, "enum") THEN "enum"
    ELSE "null"

\* The switch on the item type. The options object of the caller is handed on
\* to the generators that take options.
generateDocComment(ln, options) ==
    CASE getRustItemType(ln) = "function" ->
            generateFunctionDoc(ln, options.includeExamples,
                                options.examplesOnlyForPublicOrExtern,
                                options.includeSafetyDetails)
      [] getRustItemType(ln) = "struct" -> generateStructDoc(ln)
      [] getRustItemType(ln) = "enum" ->
            generateEnumDoc(ln, options.includeExamples,
                            options.examplesOnlyForPublicOrExtern)
      [] OTHER -> Null

\* Trait items, with and without method declarations in the body.
TraitTexts == {"trait SomeTrait {}",
               "pub trait T { fn f(&self); }",
               "trait T { fn f(&self) -> u8; fn g(); }",
               "pub trait Shape { fn area(&self) -> f64; }",
               "unsafe trait T {}",
               "trait T: Clone { }",
               "trait T { type Item; }"}

UnionTexts == {"union U { a: u32, b: f32 }",
               "pub union U { a: u32 }",
               "pub(crate) union U { a: u8, b: [u8; 4] }"}

\* Declarations that are cut short or empty, and text that is no item.
MalformedTexts == {"enum Foo", "enum E { }", "enum E {}", "pub enum E { }",
                   "struct X(", "struct S { a: u8", "struct S {", "fn f(",
                   "fn", "enum", "", "let x = 1;", "this is not a function"}

\* Functions with generic parameters.
GenericClauses == {"<T>", "<T: Clone>", "<'a, T>"}
GenericParams  == {<<>>, <<[name |-> "a", type |-> "T"]>>,
                   <<[name |-> "a", type |-> "T"], [name |-> "b", type |-> "u8"]>>}

GenericFnDecls ==
    [kind : {"generic"}, vis : {"", "pub"}, name : {"f"}, generics : GenericClauses,
     params : GenericParams, ret : {"", "T", "Result<T, E>"}]

GenericFnText(d) ==
    Word(d.vis) \o "fn " \o d.name \o d.generics \o "("
    \o Join([k \in 1..Len(d.params) |-> ParamText(d.params[k])], ", ")
    \o ")" \o (IF d.ret = "" THEN "" ELSE " -> " \o d.ret) \o " {"

Items ==
    FnDecls \cup StructDecls \cup EnumDecls \cup GenericFnDecls
    \cup [kind : {"trait"}, text : TraitTexts]
    \cup [kind : {"union"}, text : UnionTexts]
    \cup [kind : {"malformed"}, text : MalformedTexts]

ItemText(d) ==
    IF d.kind \in {"fn", "struct", "enum"} THEN SignatureText(d)
    ELSE IF d.kind = "generic" THEN GenericFnText(d)
    ELSE d.text

InitDispatch ==
    /\ pc = "ready"
    /\ decl \in Items
    /\ line = ItemText(decl)
    /\ opts \in Options
    /\ result = Null
    /\ ScanIdle

GenerateDocComment ==
    /\ pc = "ready"
    /\ result' = generateDocComment(line, opts)
    /\ pc' = "done"
    /\ UNCHANGED <<decl, line, opts, scanVars>>

NextDispatch == GenerateDocComment

SpecDispatch == InitDispatch /\ [][NextDispatch]_vars

-----------------------------------------------------------------------------
(* findNextSignatureBlock                                                  *)

\* line.replace(/\/\/\/.*|\/\/.*$/, '') on one line of the document (a line
\* holds no line break): everything from the first `//` on is removed.
StripLineComment(s) ==
    LET hits == {p \in 1..Len(s) : Lit(s, p, "//")}
    IN  IF hits = {} THEN s ELSE SubSeq(s, 1, Min(hits) - 1)

\* (?:\s*\([^)]*\)|\s+super|\s+self|\s+in\s+[^\s]+)?  after "pub": the
\* candidate ends of the optional group, in the order they are tried.
ScanVisGroupEnds(s, p) ==
    LET a  == ParenGroupEnd(s, p)
        b  == WordGroupEnd(s, p, "super")
        c  == WordGroupEnd(s, p, "self")
        n  == WordGroupEnd(s, p, "in")
        n1 == SkipWs(s, n)
        n2 == SkipUntil(s, n1, Space)
        d  == IF n # 0 /\ n1 > n /\ n2 > n1 THEN n2 ELSE 0
    IN  (IF a # 0 THEN <<a>> ELSE <<>>) \o (IF b # 0 THEN <<b>> ELSE <<>>)
        \o (IF c # 0 THEN <<c>> ELSE <<>>) \o (IF d # 0 THEN <<d>> ELSE <<>>)
        \o <<p>>

\* (?:<word>\s+)? at position p: the position after it, p when it is absent.
OptWord(s, p, w) ==
    IF Lit(s, p, w) /\ SkipWs(s, p + Len(w)) > p + Len(w)
    THEN SkipWs(s, p + Len(w)) ELSE p

\* (?:extern\s*(?:"[^"]*")?\s*)? at position p.
OptExtern(s, p) ==
    IF ~Lit(s, p, "extern") THEN p
    ELSE IF AbiGroupEnd(s, p + 6) # 0 THEN SkipWs(s, AbiGroupEnd(s, p + 6))
    ELSE SkipWs(s, p + 6)

\* ItemKeywords with the keywords of blocks that hold items.
ItemKeywords_WithBlocks == {"fn", "struct", "enum", "impl", "trait"}

ItemKeywords == {"fn", "struct", "enum"}

\* (?:pub(?:...)?\s+)? at the start of the line: the position after it.
OptVisibility(s) ==
    IF VisMatchEnd(s, 1, ScanVisGroupEnds(s, 4)) # 0
    THEN VisMatchEnd(s, 1, ScanVisGroupEnds(s, 4)) ELSE 1

\* (fn|struct|enum)\s+ at position p.
KeywordAt(s, p) ==
    LET kw == {w \in ItemKeywords : Lit(s, p, w) /\ Ch(s, p + Len(w)) \in Space}
    IN  IF kw = {} THEN [matched |-> FALSE, itemType |-> ""]
        ELSE [matched |-> TRUE, itemType |-> CHOOSE w \in kw : TRUE]

\* signatureStartPattern.exec(line): anchored at the start of the line; every
\* optional group is taken exactly when its keyword stands there (with the
\* group dropped the next thing needed is another keyword).
signatureStartPattern(s) ==
    KeywordAt(s, OptExtern(s, OptWord(s, OptWord(s, OptWord(s, OptVisibility(s),
                                                            "const"),
                                                 "async"),
                                      "unsafe")))

\* The number of positions of s that hold character c.
Count(s, c) == Cardinality({p \in 1..Len(s) : Ch(s, p) = c})

\* CollapseWs that leaves the text as it is.
CollapseWs_Unchanged(s) == s

\* .replace(/\s+/g, ' '): every run of white space becomes one space.
RECURSIVE CollapseWs(_)
CollapseWs(s) ==
    IF s = "" THEN ""
    ELSE IF Ch(s, 1) \in Space THEN " " \o CollapseWs(From(s, SkipWs(s, 1)))
    ELSE Ch(s, 1) \o CollapseWs(From(s, 2))

\* The return statement: the collected lines joined, normalized; null when
\* nothing was collected.
NormalizedSignature(sigLines) ==
    IF Len(sigLines) > 0
    THEN [ok |-> TRUE, threw |-> FALSE, lines |-> sigLines,
          text |-> Trim(CollapseWs(Join(sigLines, " ")))]
    ELSE Null

\* document.lineAt(i).text.trim(), i zero-based
LineAt(k) == Trim(buffer[k + 1])

\* EarlyExit without the test for an empty line.
EarlyExit_PassingEmptyLines(ln, isCollecting, depth) ==
    \/ ~isCollecting /\ ln = "}" /\ depth = 0
    \/ ~isCollecting /\ StartsWith(ln, "//")

\* The early exit at the top of the loop body.
EarlyExit(ln, isCollecting, depth) ==
    \/ ~isCollecting /\ ln = "}" /\ depth = 0
    \/ ~isCollecting /\ ln = ""
    \/ ~isCollecting /\ StartsWith(ln, "//")

\* The line after the comment strip.
Cleaned(k) == Trim(StripLineComment(LineAt(k)))

\* Whether the loop body skips the line as (part of) an attribute.
InAttribute(k) == ~collecting /\ (insideAttribute \/ StartsWith(Trim(Cleaned(k)), "#["))

\* EndsSignature with the closing brace as a fourth terminator.
EndsSignature_OrClosingBrace(ln) ==
    EndsWith(ln, "{") \/ EndsWith(ln, ";") \/ EndsWith(ln, "=>") \/ EndsWith(ln, "}")

\* EndsSignature with the opening brace as the only terminator.
EndsSignature_BraceOnly(ln) == EndsWith(ln, "{")

\* The function termination test.
EndsSignature(ln) == EndsWith(ln, "{") \/ EndsWith(ln, ";") \/ EndsWith(ln, "=>")

\* The depths after the characters of a collected struct or enum line.
BraceAfter(ln) == braceDepth + Count(ln, "{") - Count(ln, "}")
ParenAfter(ln) == parentDepth + Count(ln, "(") - Count(ln, ")")

\* StopsAt without the two depth tests.
StopsAt_IgnoringDepth(ln, t) ==
    IF t = "fn" THEN EndsSignature(ln)
    ELSE EndsWith(ln, "}") \/ EndsWith(ln, ";")

\* Whether collection stops with line ln, the item being of type t.
StopsAt(ln, t) ==
    IF t = "fn" THEN EndsSignature(ln)
    ELSE /\ BraceAfter(ln) = 0
         /\ ParenAfter(ln) = 0
         /\ (EndsWith(ln, "}") \/ EndsWith(ln, ";"))

\* The item type after the start test on line ln.
TypeAfter(ln) ==
    IF ~collecting /\ signatureStartPattern(ln).matched
    THEN signatureStartPattern(ln).itemType ELSE itemType

Looping == pc = "scanning" /\ i < Len(buffer)

\* One pass of the loop that returns null at once.
ScanEarlyExit ==
    /\ Looping
    /\ EarlyExit(LineAt(i), collecting, braceDepth)
    /\ scanned' = Null
    /\ pc' = "done"
    /\ UNCHANGED <<genVars, buffer, startLine, i, collecting, signatureLines,
                   braceDepth, parentDepth, itemType, insideAttribute,
                   bracketBalance>>

\* One pass of the loop that skips an attribute line.
ScanAttribute ==
    /\ Looping
    /\ ~EarlyExit(LineAt(i), collecting, braceDepth)
    /\ InAttribute(i)
    /\ LET bal == bracketBalance + Count(Cleaned(i), "[") - Count(Cleaned(i), "]")
       IN  /\ insideAttribute' = (bal > 0)
           /\ bracketBalance' = IF bal > 0 THEN bal ELSE 0
    /\ i' = i + 1
    /\ UNCHANGED <<pc, genVars, buffer, startLine, collecting, signatureLines,
                   braceDepth, parentDepth, itemType, scanned>>

\* One pass of the loop over a line that starts no item, before collection.
ScanSkip ==
    /\ Looping
    /\ ~EarlyExit(LineAt(i), collecting, braceDepth)
    /\ ~InAttribute(i)
    /\ ~collecting
    /\ ~signatureStartPattern(Cleaned(i)).matched
    /\ i' = i + 1
    /\ UNCHANGED <<pc, genVars, buffer, startLine, collecting, signatureLines,
                   braceDepth, parentDepth, itemType, insideAttribute,
                   bracketBalance, scanned>>

\* One pass of the loop that collects a line and goes on.
ScanCollect ==
    /\ Looping
    /\ ~EarlyExit(LineAt(i), collecting, braceDepth)
    /\ ~InAttribute(i)
    /\ collecting \/ signatureStartPattern(Cleaned(i)).matched
    /\ ~StopsAt(Cleaned(i), TypeAfter(Cleaned(i)))
    /\ collecting' = TRUE
    /\ itemType' = TypeAfter(Cleaned(i))
    /\ signatureLines' = Append(signatureLines, Cleaned(i))
    /\ braceDepth' = IF itemType' = "fn" THEN braceDepth ELSE BraceAfter(Cleaned(i))
    /\ parentDepth' = IF itemType' = "fn" THEN parentDepth ELSE ParenAfter(Cleaned(i))
    /\ i' = i + 1
    /\ UNCHANGED <<pc, genVars, buffer, startLine, insideAttribute,
                   bracketBalance, scanned>>

\* One pass of the loop that collects the terminating line, breaks and returns.
ScanTerminate ==
    /\ Looping
    /\ ~EarlyExit(LineAt(i), collecting, braceDepth)
    /\ ~InAttribute(i)
    /\ collecting \/ signatureStartPattern(Cleaned(i)).matched
    /\ StopsAt(Cleaned(i), TypeAfter(Cleaned(i)))
    /\ collecting' = TRUE
    /\ itemType' = TypeAfter(Cleaned(i))
    /\ signatureLines' = Append(signatureLines, Cleaned(i))
    /\ braceDepth' = IF itemType' = "fn" THEN braceDepth ELSE BraceAfter(Cleaned(i))
    /\ parentDepth' = IF itemType' = "fn" THEN parentDepth ELSE ParenAfter(Cleaned(i))
    /\ scanned' = NormalizedSignature(signatureLines')
    /\ pc' = "done"
    /\ UNCHANGED <<genVars, buffer, startLine, i, insideAttribute, bracketBalance>>

\* The loop ends with the document, and the function returns.
ScanEndOfDocument ==
    /\ pc = "scanning"
    /\ i >= Len(buffer)
    /\ scanned' = NormalizedSignature(signatureLines)
    /\ pc' = "done"
    /\ UNCHANGED <<genVars, buffer, startLine, i, collecting, signatureLines,
                   braceDepth, parentDepth, itemType, insideAttribute,
                   bracketBalance>>

-----------------------------------------------------------------------------
(* The scanner's inputs: a document is the lines down to the cursor, then  *)
(* blocks of lines that start no item, then an item, then what follows it. *)

MaxBlocks == 2   \* blocks of lines between the cursor and the item

LeadPool == {<<"///">>, <<"pub struct W {", "    ///">>}

BlockPool ==
    {<<"">>, <<"   ">>, <<"  // note">>, <<"}">>, <<"#[inline]">>,
     <<"    #[cfg(feature = \"foo\")]">>, <<"#[doc = \"a//b\"]">>,
     <<"#[cfg(all(unix,", "    target_os = \"x\"))]">>,
     <<"#[cfg(all(unix,", "", "    target_os = \"x\"))]">>,
     <<"#[cfg_attr(a,", "    // why", "    b)]">>,
     <<"#[doc = \"", "}", "\"]">>,
     <<"#[doc = \"", "fn main() {}", "\"]">>,
     <<"impl Foo {">>, <<"    x: u8,">>, <<"trait T {", "    let x = 5;">>}

\* An item: its lines, and its signature in normal form.
ItemPool ==
    {[lines |-> <<"fn hello() -> String {">>,
      sig   |-> "fn hello() -> String {"],
     [lines |-> <<"    pub fn run(", "        a: u8, // first", "    ) -> u8 {">>,
      sig   |-> "pub fn run( a: u8, ) -> u8 {"],
     [lines |-> <<"pub struct P {", "    x: u8,", "}">>,
      sig   |-> "pub struct P { x: u8, }"],
     [lines |-> <<"struct U;">>,
      sig   |-> "struct U;"],
     [lines |-> <<"pub(crate) enum C {", "    A,", "    B(u8),", "}">>,
      sig   |-> "pub(crate) enum C { A, B(u8), }"],
     [lines |-> <<"fn area(&self) -> f64;">>,
      sig   |-> "fn area(&self) -> f64;"],
     [lines |-> <<"pub fn go() { // start">>,
      sig   |-> "pub fn go() {"],
     [lines |-> <<"pub  fn\ttab(a:  u8)  {  /// c // d">>,
      sig   |-> "pub fn tab(a: u8) {"],
     [lines |-> <<"fn f() {}">>,
      sig   |-> "fn f() {}"],
     [lines |-> <<"fn pick(x: u8) =>">>,
      sig   |-> "fn pick(x: u8) =>"],
     [lines |-> <<"pub struct Q {", "    // the x", "", "    x: Vec<(u8, u8)>,", "}">>,
      sig   |-> "pub struct Q { x: Vec<(u8, u8)>, }"],
     [lines |-> <<"enum N {", "    C {", "        x: u32,", "    }", "}">>,
      sig   |-> "enum N { C { x: u32, } }"],
     [lines |-> <<>>, sig |-> ""]}

TailPool == {<<>>, <<"}", "", "pub fn later() {">>}

RECURSIVE Flatten(_)
Flatten(blocks) == IF blocks = <<>> THEN <<>> ELSE Head(blocks) \o Flatten(Tail(blocks))

Documents ==
    [kind : {"document"}, lead : LeadPool,
     blocks : SeqsOf(BlockPool, 0, MaxBlocks), item : ItemPool, tail : TailPool]

DocumentLines(d) == d.lead \o Flatten(d.blocks) \o d.item.lines \o d.tail

InitScan ==
    /\ decl \in Documents
    /\ buffer = DocumentLines(decl)
    /\ startLine = Len(decl.lead) - 1
    /\ i = startLine + 1
    /\ pc = "scanning"
    /\ collecting = FALSE /\ signatureLines = <<>>
    /\ braceDepth = 0 /\ parentDepth = 0 /\ itemType = ""
    /\ insideAttribute = FALSE /\ bracketBalance = 0
    /\ scanned = Null
    /\ line = "" /\ opts = [includeExamples |-> TRUE,
                            examplesOnlyForPublicOrExtern |-> FALSE,
                            includeSafetyDetails |-> FALSE]
    /\ result = Null

NextScan ==
    \/ ScanEarlyExit
    \/ ScanAttribute
    \/ ScanSkip
    \/ ScanCollect
    \/ ScanTerminate
    \/ ScanEndOfDocument

SpecScan == InitScan /\ [][NextScan]_vars

-----------------------------------------------------------------------------
(* splitEnumVariants on its own: an enum body is chosen, handed to the      *)
(* splitter, and the splitter returns its list.                             *)

\* An enum body: its variants, what separates them, and what follows the last.
Bodies ==
    [kind : {"body"}, variants : SeqsOf(VariantPool, 1, MaxVariants),
     sep : {",", ", ", " ,  "}, trailing : {"", ",", ", "}]
    \cup {[kind |-> "body", variants |-> <<>>, sep |-> ",", trailing |-> ""]}

BodyText(d) == Join(d.variants, d.sep) \o d.trailing

InitSplit ==
    /\ pc = "ready"
    /\ decl \in Bodies
    /\ line = BodyText(decl)
    /\ opts = [includeExamples |-> TRUE, examplesOnlyForPublicOrExtern |-> FALSE,
               includeSafetyDetails |-> FALSE]
    /\ result = Null
    /\ ScanIdle

SplitEnumVariants ==
    /\ pc = "ready"
    /\ decl.kind = "body"
    /\ result' = [ok |-> TRUE, threw |-> FALSE, lines |-> splitEnumVariants(line),
                  text |-> ""]
    /\ pc' = "done"
    /\ UNCHANGED <<decl, line, opts, scanVars>>

NextSplit == SplitEnumVariants

SpecSplit == InitSplit /\ [][NextSplit]_vars

-----------------------------------------------------------------------------
(* Properties                                                              *)

\* The generator of kind k has returned.
Done(k) == pc = "done" /\ decl.kind = k

\* Whether the returned template has a line that is the heading h.
HasSection(h) == result.ok /\ \E k \in 1..Len(result.lines) : result.lines[k] = h

\* The lines of section h: those after the heading and the empty line under
\* it, up to the next empty line.
SectionBody(lines, h) ==
    LET hs == {k \in 1..Len(lines) : lines[k] = h}
    IN  IF hs = {} THEN <<>>
        ELSE LET first == Min(hs) + 2
                 gaps  == {k \in first..Len(lines) : lines[k] = ""}
                 last  == IF gaps = {} THEN Len(lines) ELSE Min(gaps) - 1
             IN  SubSeq(lines, first, last)

\* How a bullet shows a name with a type.
Shown(name, type) == "- " \o BT \o name \o BT \o " (" \o BT \o type \o BT \o ")"

\* How a bullet shows the k-th declared parameter: a receiver has no
\* declared type, so only its name is asked for.
ShownParam(p) ==
    IF p.type = "" THEN "- " \o BT \o p.name \o BT \o " " ELSE Shown(p.name, p.type)

\* C1: for a function with n >= 1 parameters the `# Arguments` section has
\* exactly n bullets, the k-th showing the k-th parameter's name and its full
\* declared type.
ArgumentsListEveryParameter ==
    (Done("fn") /\ Len(decl.params) >= 1) =>
        /\ result.ok
        /\ LET bullets == SectionBody(result.lines, "# Arguments")
           IN  /\ Len(bullets) = Len(decl.params)
               /\ \A k \in 1..Len(decl.params) :
                     k <= Len(bullets) /\ StartsWith(bullets[k], ShownParam(decl.params[k]))

\* C2: a `# Returns` section is emitted exactly when the signature has an
\* arrow clause, and its one bullet shows the declared return type verbatim.
ReturnsIffArrowClause ==
    Done("fn") =>
        /\ result.ok
        /\ HasSection("# Returns") <=> (decl.ret # "")
        /\ decl.ret # "" =>
              LET bullets == SectionBody(result.lines, "# Returns")
              IN  /\ Len(bullets) = 1
                  /\ StartsWith(bullets[1], "- " \o BT \o decl.ret \o BT \o " ")

\* A return type of the shape Result<...>.
HasResultShape(t) == StartsWith(t, "Result<") /\ EndsWith(t, ">")

\* C3: an `# Errors` section is emitted exactly when the return type has the
\* shape Result<...>.
ErrorsIffResultShape ==
    Done("fn") => (HasSection("# Errors") <=> HasResultShape(decl.ret))

\* C4: a `# Safety` section is emitted exactly when the function is unsafe or
\* extern, with an ABI string or without one.
SafetyIffUnsafeOrExtern ==
    Done("fn") => (HasSection("# Safety") <=> (decl.unsafe \/ decl.extern # ""))

\* C5: with includeExamples = false neither the function generator nor the
\* enum generator emits an `# Examples` section, whatever the other options.
NoExamplesWhenDisabled ==
    ((Done("fn") \/ Done("enum")) /\ ~opts.includeExamples) => ~HasSection("# Examples")

\* A function with a visibility clause got a template, with examples
\* disabled and the other options set.
NoExamplesWhenDisabledHappens ==
    /\ Done("fn") /\ decl.vis = "pub(crate)" /\ decl.unsafe
    /\ ~opts.includeExamples
    /\ opts.examplesOnlyForPublicOrExtern /\ opts.includeSafetyDetails
    /\ result.ok /\ HasSection("# Safety")

\* C6: with includeExamples and examplesOnlyForPublicOrExtern both set, a
\* function gets an `# Examples` section exactly when it has a visibility
\* clause or an extern clause.
ExamplesOnlyForPublicOrExtern ==
    (Done("fn") /\ opts.includeExamples /\ opts.examplesOnlyForPublicOrExtern) =>
        /\ result.ok
        /\ HasSection("# Examples") <=> (decl.vis # "" \/ decl.extern # "")

\* A line that is a bare `}`, empty, or a line comment.
IsStopLine(raw) == Trim(raw) = "}" \/ Trim(raw) = "" \/ StartsWith(Trim(raw), "//")

\* The place in the document (counted from 1) of the first collected line,
\* once the scanner has returned a signature.
FirstCollected ==
    IF i < Len(buffer) THEN i + 2 - Len(signatureLines)
    ELSE Len(buffer) + 1 - Len(signatureLines)

IsSingleLineAttribute(raw) == StartsWith(Trim(raw), "#[") /\ EndsWith(Trim(raw), "]")

\* C8: when the lines after the cursor are k >= 0 single-line attributes
\* followed by an item, the scanner returns that item's normalized signature.
SingleLineAttributesSkipped ==
    (/\ pc = "done" /\ decl.kind = "document"
     /\ decl.item.lines # <<>>
     /\ \A k \in 1..Len(decl.blocks) :
           Len(decl.blocks[k]) = 1 /\ IsSingleLineAttribute(decl.blocks[k][1]))
    => (scanned.ok /\ scanned.text = decl.item.sig)

\* C9: a struct without members, spelled `;`, `{}` or `{ }`, gets no template.
NoTemplateForMemberlessStruct ==
    (Done("struct") /\ decl.style \in {"unit;", "unit{}", "unit{ }"}) => result = Null

\* The lines of the example's brace literal, between `let s = N {` and `};`.
ExampleLiteral(lines, name) ==
    LET opens  == {k \in 1..Len(lines) : lines[k] = "let s = " \o name \o " {"}
        closes == {k \in 1..Len(lines) : lines[k] = "};"}
    IN  IF opens = {} \/ closes = {} THEN <<>>
        ELSE SubSeq(lines, Min(opens) + 1, Min(closes) - 1)

\* C10: a struct with n named fields gets a `# Fields` section of exactly n
\* bullets `fi (Ti)` in declaration order, visibility stripped, and an example
\* literal of exactly n lines `fi: value,` in the same order.
FieldsListEveryField ==
    (Done("struct") /\ decl.style = "fields") =>
        /\ result.ok
        /\ LET bullets == SectionBody(result.lines, "# Fields")
               literal == ExampleLiteral(result.lines, decl.name)
               n       == Len(decl.fields)
           IN  /\ Len(bullets) = n
               /\ Len(literal) = n
               /\ \A k \in 1..n :
                     /\ k <= Len(bullets)
                     /\ StartsWith(bullets[k], Shown(FieldNameAt[k], decl.fields[k].type) \o " ")
                     /\ k <= Len(literal)
                     /\ literal[k] = "    " \o FieldNameAt[k] \o ": value,"

\* C11: a tuple struct of n types gets exactly n field bullets, field_0 to
\* field_{n-1}, each with the type at its position, and a positional example
\* literal of exactly n values.
TupleFieldsListEveryType ==
    (Done("struct") /\ decl.style = "tuple") =>
        /\ result.ok
        /\ LET bullets == SectionBody(result.lines, "# Fields")
               n       == Len(decl.fields)
           IN  /\ Len(bullets) = n
               /\ \A k \in 1..n :
                     /\ k <= Len(bullets)
                     /\ StartsWith(bullets[k],
                                   Shown("field_" \o NumStr(k - 1), decl.fields[k].type) \o " ")
               /\ \E k \in 1..Len(result.lines) :
                     result.lines[k] = "let s = " \o decl.name \o "("
                                       \o Join([j \in 1..n |-> "value"], ", ") \o ");"

\* The name a variant is declared with: its leading identifier.
VariantName(v) == SubSeq(v, 1, SkipWord(v, 1) - 1)

\* The arms of the example's match expression: the lines between
\* `match <name> {` and the closing `}`.
MatchArms(lines) ==
    LET opens  == {k \in 1..Len(lines) : StartsWith(lines[k], "match ")}
        closes == {k \in 1..Len(lines) : lines[k] = "}"}
    IN  IF opens = {} \/ closes = {} THEN <<>>
        ELSE SubSeq(lines, Min(opens) + 1, Min(closes) - 1)

\* The example of an enum is emitted.
EnumExampleDue ==
    opts.includeExamples /\ (~opts.examplesOnlyForPublicOrExtern \/ decl.vis # "")

\* C12: an enum of n variants gets exactly n `# Variants` bullets and, in the
\* example, exactly n match arms, both in declared order, and the example
\* instantiates the first declared variant by its name.
VariantsListedAndMatched ==
    (Done("enum") /\ EnumExampleDue) =>
        /\ result.ok
        /\ LET bullets == SectionBody(result.lines, "# Variants")
               arms    == MatchArms(result.lines)
               n       == Len(decl.variants)
           IN  /\ Len(bullets) = n
               /\ Len(arms) = n
               /\ \A k \in 1..n :
                     /\ k <= Len(bullets)
                     /\ StartsWith(bullets[k], "- " \o BT \o VariantName(decl.variants[k]))
                     /\ k <= Len(arms)
                     /\ StartsWith(arms[k], "    " \o decl.name \o "::"
                                            \o VariantName(decl.variants[k]))
               /\ \E k \in 1..Len(result.lines) :
                     result.lines[k] = "let " \o toLowerCase(decl.name) \o " = " \o decl.name
                                       \o "::" \o VariantName(decl.variants[1]) \o ";"

\* An enum of two variants, the first with a payload that holds a comma, got
\* its template with the example.
VariantsListedAndMatchedHappens ==
    /\ Done("enum") /\ EnumExampleDue
    /\ decl.variants = <<"D(u8, u8)", "C { x: u32 }">>
    /\ result.ok /\ HasSection("# Examples")

\* A text without its white space.
RECURSIVE Squeeze(_)
Squeeze(s) ==
    IF s = "" THEN ""
    ELSE (IF Ch(s, 1) \in Space THEN "" ELSE Ch(s, 1)) \o Squeeze(From(s, 2))

\* A text without one comma at its end.
DropLastComma(s) == IF EndsWith(s, ",") THEN SubSeq(s, 1, Len(s) - 1) ELSE s

\* C13: splitEnumVariants returns the declared variants, trimmed and in source
\* order - it splits at the commas outside every brace and parenthesis, and at
\* no other - and its result joined with commas is the body again, up to
\* white space and a comma at the end.
SplitAtTopLevelCommas ==
    Done("body") =>
        /\ result.lines = decl.variants
        /\ Squeeze(Join(result.lines, ",")) = DropLastComma(Squeeze(line))

\* A body of two variants with commas inside braces and inside parentheses,
\* and a comma after the last, has been split.
SplitAtTopLevelCommasHappens ==
    /\ Done("body")
    /\ decl.variants = <<"E { x: u8, y: u8 }", "D(u8, u8)">>
    /\ decl.trailing = ","
    /\ Len(result.lines) = 2

\* C14: a trait or a union item - a trait with method declarations in its
\* body too - is classified as no item, and generateDocComment returns null
\* for it.
TraitAndUnionUnsupported ==
    (pc = "done" /\ decl.kind \in {"trait", "union"}) =>
        /\ getRustItemType(line) = "null"
        /\ result = Null

\* C15: no call ends in an exception: whatever the signature text - a
\* declaration cut short, an enum whose braces hold no variant - the
\* dispatcher and the generator it calls return a template or null, and the
\* scanner returns a signature or null.
NoInputThrows ==
    pc = "done" => (~result.threw /\ ~scanned.threw)

\* C16: with includeExamples = false no template of any item kind has an
\* `# Examples` section.
ExamplesGovernedForEveryKind ==
    (pc = "done" /\ ~opts.includeExamples) => ~HasSection("# Examples")

\* C17: a function with generic parameters is handled: the scanner's start
\* pattern matches its line as a function, it is classified as a function, and
\* the template lists its parameters and its return type.
GenericFunctionsHandled ==
    Done("generic") =>
        /\ signatureStartPattern(line).matched
        /\ signatureStartPattern(line).itemType = "fn"
        /\ getRustItemType(line) = "function"
        /\ result.ok
        /\ LET bullets == SectionBody(result.lines, "# Arguments")
           IN  /\ Len(bullets) = Len(decl.params)
               /\ \A k \in 1..Len(decl.params) :
                     k <= Len(bullets) /\ StartsWith(bullets[k], ShownParam(decl.params[k]))
        /\ HasSection("# Returns") <=> (decl.ret # "")
        /\ decl.ret # "" =>
              StartsWith(SectionBody(result.lines, "# Returns")[1],
                         "- " \o BT \o decl.ret \o BT \o " ")
        /\ opts.includeExamples /\ ~opts.examplesOnlyForPublicOrExtern =>
              \E k \in 1..Len(result.lines) : Includes(result.lines[k], decl.name \o "(")

\* The collected text of document line k (counted from 1): trimmed, the
\* comment stripped.
CollectedText(k) == Cleaned(k - 1)

\* The document lines from s on whose collected text ends with `{`, `;` or `=>`.
FnTerminators(s) ==
    {k \in s..Len(buffer) : \/ EndsWith(CollectedText(k), "{")
                            \/ EndsWith(CollectedText(k), ";")
                            \/ EndsWith(CollectedText(k), "=>")}

\* C18: for a function item the returned signature is made of exactly the
\* lines from the start line through the first line that ends with `{`, `;`
\* or `=>`, in document order, and the scanner has read no line after it.
FnSignatureEndsAtFirstTerminator ==
    (pc = "done" /\ itemType = "fn") =>
        LET s == FirstCollected
            t == IF FnTerminators(s) = {} THEN Len(buffer) ELSE Min(FnTerminators(s))
        IN  /\ signatureStartPattern(CollectedText(s)).itemType = "fn"
            /\ scanned.ok
            /\ scanned.lines = [k \in 1..(t - s + 1) |-> CollectedText(s + k - 1)]
            /\ scanned.text = Trim(CollapseWs(Join(scanned.lines, " ")))
            /\ i < t \/ FnTerminators(s) = {}

\* A function written over three lines, after one block and before further
\* lines, has been returned as its signature.
FnSignatureEndsAtFirstTerminatorHappens ==
    /\ pc = "done" /\ itemType = "fn" /\ decl.kind = "document"
    /\ Len(decl.item.lines) = 3 /\ Len(decl.blocks) = 1 /\ decl.tail # <<>>
    /\ scanned.ok /\ scanned.text = decl.item.sig
    /\ i + 1 < Len(buffer)

\* The brace or parenthesis depth over the collected text of lines s..k.
RECURSIVE DepthThrough(_, _, _, _)
DepthThrough(s, k, open, close) ==
    IF k < s THEN 0
    ELSE DepthThrough(s, k - 1, open, close)
         + Count(CollectedText(k), open) - Count(CollectedText(k), close)

\* The document lines from s on after which both depths, counted from s, are
\* zero and which end with `}` or `;`.
BodyCloses(s) ==
    {k \in s..Len(buffer) :
        /\ DepthThrough(s, k, "{", "}") = 0
        /\ DepthThrough(s, k, "(", ")") = 0
        /\ EndsWith(CollectedText(k), "}") \/ EndsWith(CollectedText(k), ";")}

\* C19: for a struct or an enum the scanner returns a signature - a blank
\* line, a comment line or a bare `}` inside the body never makes it return
\* null - that is made of every line from the start line through the first
\* line after which both depths are zero and which ends with `}` or `;`.
BodyCollectedThroughItsClose ==
    (pc = "done" /\ itemType \in {"struct", "enum"}) =>
        LET s == FirstCollected
            t == IF BodyCloses(s) = {} THEN Len(buffer) ELSE Min(BodyCloses(s))
        IN  /\ scanned.ok
            /\ scanned.lines = [k \in 1..(t - s + 1) |-> CollectedText(s + k - 1)]
            /\ i < t \/ BodyCloses(s) = {}

\* An enum whose body holds a bare `}` before its closing line, and a struct
\* whose body holds a comment line and a blank line, have been returned whole.
BodyCollectedThroughItsCloseHappens ==
    /\ pc = "done" /\ decl.kind = "document"
    /\ scanned.ok /\ scanned.text = decl.item.sig
    /\ decl.tail # <<>>
    /\ \/ itemType = "enum" /\ \E k \in 2..(Len(decl.item.lines) - 1) :
                                   Trim(decl.item.lines[k]) = "}"
       \/ itemType = "struct" /\ \E k \in 2..(Len(decl.item.lines) - 1) :
                                   Trim(decl.item.lines[k]) = ""

\* C20: when the lines after the cursor are one or more lines that are empty
\* after trimming, followed by an item, the scanner returns that item's
\* normalized signature.
BlankLinesSkippedBeforeItem ==
    (/\ pc = "done" /\ decl.kind = "document"
     /\ decl.item.lines # <<>> /\ decl.blocks # <<>>
     /\ \A k \in 1..Len(decl.blocks) :
           Len(decl.blocks[k]) = 1 /\ Trim(decl.blocks[k][1]) = "")
    => (scanned.ok /\ scanned.text = decl.item.sig)

\* The bracket depth of the raw text of lines 1..k of a block.
RECURSIVE BracketDepth(_, _)
BracketDepth(block, k) ==
    IF k = 0 THEN 0
    ELSE BracketDepth(block, k - 1) + Count(block[k], "[") - Count(block[k], "]")

\* A block that is one attribute written over several lines: it opens with
\* `#[` and its bracket depth returns to zero on its last line and no sooner.
IsMultiLineAttribute(block) ==
    /\ Len(block) >= 2
    /\ StartsWith(Trim(block[1]), "#[")
    /\ BracketDepth(block, Len(block)) = 0
    /\ \A k \in 1..(Len(block) - 1) : BracketDepth(block, k) > 0

\* C21: when the lines after the cursor are attributes written over several
\* lines - whatever the lines inside them hold: a blank line, a comment line,
\* a bare `}`, an item keyword - followed by an item, every attribute line is
\* skipped and the scanner returns that item's normalized signature.
MultiLineAttributesSkipped ==
    (/\ pc = "done" /\ decl.kind = "document"
     /\ decl.item.lines # <<>> /\ decl.blocks # <<>>
     /\ \A k \in 1..Len(decl.blocks) : IsMultiLineAttribute(decl.blocks[k]))
    => (scanned.ok /\ scanned.text = decl.item.sig)

\* A text in normal form: no newline, no tab, no two white-space characters
\* in a row, no white space at either end, and no `//`.
InNormalForm(t) ==
    /\ \A p \in 1..Len(t) : Ch(t, p) \notin {"\n", "\t"}
    /\ \A p \in 1..(Len(t) - 1) : ~(Ch(t, p) \in Space /\ Ch(t, p + 1) \in Space)
    /\ Ch(t, 1) \notin Space /\ Ch(t, Len(t)) \notin Space
    /\ ~Includes(t, "//")

CommaFree(entries) == \A k \in 1..Len(entries) : ~Includes(entries[k].type, ",")

\* C23: an entry `name: type` is split at its first colon only: the bullet of
\* a parameter or of a field shows the name and the whole text after the
\* first colon, further colons included.
SplitAtFirstColonOnly ==
    /\ (Done("fn") /\ CommaFree(decl.params)) =>
          /\ result.ok
          /\ \A k \in 1..Len(decl.params) :
                decl.params[k].type # "" =>
                   \E b \in 1..Len(result.lines) :
                      StartsWith(result.lines[b],
                                 Shown(decl.params[k].name, decl.params[k].type) \o " ")
    /\ (Done("struct") /\ decl.style = "fields" /\ CommaFree(decl.fields)) =>
          /\ result.ok
          /\ \A k \in 1..Len(decl.fields) :
                \E b \in 1..Len(result.lines) :
                   StartsWith(result.lines[b],
                              Shown(FieldNameAt[k], decl.fields[k].type) \o " ")

\* The placeholder numbers of one line, in reading order: the text between
\* each `${` and the colon after it.
RECURSIVE SlotsIn(_, _)
SlotsIn(s, p) ==
    IF p > Len(s) THEN <<>>
    ELSE IF Lit(s, p, "${")
         THEN <<SubSeq(s, p + 2, SkipUntil(s, p + 2, {":"}) - 1)>> \o SlotsIn(s, p + 2)
         ELSE SlotsIn(s, p + 1)

\* The placeholder numbers of a template, in reading order.
RECURSIVE Slots(_)
Slots(lines) ==
    IF lines = <<>> THEN <<>> ELSE SlotsIn(Head(lines), 1) \o Slots(Tail(lines))

\* C24: in every template the description placeholder is slot 1 and stands
\* first, and the placeholder numbers read in order are 1, 2, ..., k.
PlaceholdersNumberedInOrder ==
    (pc = "done" /\ result.ok) =>
        /\ StartsWith(result.lines[1], " ${1:Describe this ")
        /\ Slots(result.lines) = [k \in 1..Len(Slots(result.lines)) |-> NumStr(k)]

\* An unsafe function with a parameter and a Result return type got a
\* template with examples: six placeholders.  So did an enum of two variants
\* and a struct of two fields: four placeholders each.
PlaceholdersNumberedInOrderHappens ==
    /\ pc = "done" /\ result.ok
    /\ \/ Done("fn") /\ decl.unsafe /\ Len(decl.params) = 1
          /\ HasSection("# Errors") /\ HasSection("# Examples")
          /\ Len(Slots(result.lines)) = 6
       \/ Done("enum") /\ Len(decl.variants) = 2 /\ Len(Slots(result.lines)) = 4
       \/ Done("struct") /\ Len(decl.fields) = 2 /\ Len(Slots(result.lines)) = 4

\* The section headings of a function template, in their fixed order.
SectionOrder == <<"# Arguments", "# Returns", "# Safety", "# Errors", "# Examples">>

\* The place of heading h in the fixed order; 0 for any other heading.
Rank(h) ==
    IF \E k \in 1..Len(SectionOrder) : SectionOrder[k] = h
    THEN CHOOSE k \in 1..Len(SectionOrder) : SectionOrder[k] = h ELSE 0

\* The heading lines of a template, in the order they appear.
IsHeading(l) == StartsWith(l, "# ")
Headings(lines) == SelectSeq(lines, IsHeading)

\* C25: a function template begins with the description line, and its
\* headings are headings of the fixed order, each at most once, none before
\* one that is earlier in that order.
FunctionSectionsInFixedOrder ==
    Done("fn") =>
        /\ result.ok
        /\ result.lines[1] = " ${1:Describe this function.}"
        /\ LET hs == Headings(result.lines)
           IN  /\ \A k \in 1..Len(hs) : Rank(hs[k]) # 0
               /\ \A j, k \in 1..Len(hs) : j < k => Rank(hs[j]) < Rank(hs[k])

\* A template with all five sections has been returned.
FunctionSectionsInFixedOrderHappens ==
    /\ Done("fn") /\ result.ok
    /\ Headings(result.lines) = SectionOrder

\* The places (counted from 1) of the lines of a template that are line l.
PlacesOf(lines, l) == {k \in 1..Len(lines) : lines[k] = l}

\* The heading bullet and the three bullets of the caller's obligations.
CallerObligations ==
    <<"- **The caller must ensure that:**",
      "  - Any internal state or memory accessed by this function is in a valid state.",
      "  - Preconditions specific to this function's logic are satisfied.",
      "  - This function is only called in the correct program state to avoid UB.">>

UnsafeBullet == "- **This function is " \o BT \o "unsafe" \o BT \o " because:**"

\* Whether the lines of block stand in lines one after the other from place k.
StandsAt(lines, k, block) ==
    /\ k + Len(block) - 1 <= Len(lines)
    /\ \A j \in 1..Len(block) : lines[k + j - 1] = block[j]

\* C26: in a function template the bullets of the caller's obligations stand
\* exactly when includeSafetyDetails is set and there is a `# Safety` section,
\* right under the heading and so before the unsafe bullet; the unsafe bullet,
\* followed by its placeholder, stands exactly when the function is unsafe.
SafetySectionContent ==
    Done("fn") =>
        /\ result.ok
        /\ (\E k \in 1..Len(result.lines) : result.lines[k] = CallerObligations[1])
              <=> (opts.includeSafetyDetails /\ HasSection("# Safety"))
        /\ \A k \in PlacesOf(result.lines, CallerObligations[1]) :
              /\ StandsAt(result.lines, k, CallerObligations)
              /\ k >= 3 /\ result.lines[k - 2] = "# Safety"
              /\ \A u \in PlacesOf(result.lines, UnsafeBullet) : k < u
        /\ (PlacesOf(result.lines, UnsafeBullet) # {}) <=> decl.unsafe
        /\ \A u \in PlacesOf(result.lines, UnsafeBullet) :
              /\ u < Len(result.lines)
              /\ StartsWith(result.lines[u + 1], "  - ${")
              /\ EndsWith(result.lines[u + 1], ":Describe unsafe behavior.}")
              /\ HasSection("# Safety")

\* The example body the claim gives for a function of the given name.
ExampleBody(name, async, unsafe) ==
    IF async /\ unsafe
    THEN <<"async {",
           "  // SAFETY: The Caller guarantees all invariants are met.",
           "  let result = unsafe { " \o name \o "().await };",
           "};">>
    ELSE IF async
    THEN <<"async {", "  let result = " \o name \o "().await;", "};">>
    ELSE IF unsafe
    THEN <<"// SAFETY: The Caller guarantees all invariants are met.",
           "unsafe {", "  let _ = " \o name \o "();", "}">>
    ELSE <<"let _ = " \o name \o "();">>

\* The lines of a template after the `# Examples` heading and the empty line
\* under it.
ExampleLines(lines) ==
    IF PlacesOf(lines, "# Examples") = {} THEN <<>>
    ELSE SubSeq(lines, Min(PlacesOf(lines, "# Examples")) + 2, Len(lines))

\* C27: the example of a function template is a code fence, marked no_run
\* exactly when the function is async or unsafe, then the import placeholder
\* line and an empty line, then the body chosen by async and unsafe, then the
\* closing fence.
ExampleBodyByModifiers ==
    (Done("fn") /\ HasSection("# Examples")) =>
        LET ex == ExampleLines(result.lines)
        IN  /\ Len(ex) = 4 + Len(ExampleBody(decl.name, decl.async, decl.unsafe))
            /\ ex[1] = (IF decl.async \/ decl.unsafe THEN Fence \o "no_run" ELSE Fence)
            /\ StartsWith(ex[2], "use crate::${") /\ EndsWith(ex[2], ":...};")
            /\ ex[3] = ""
            /\ SubSeq(ex, 4, Len(ex) - 1) = ExampleBody(decl.name, decl.async, decl.unsafe)
            /\ ex[Len(ex)] = Fence

\* A line that the scanner passes over before collection: not blank, not a
\* comment, not a bare `}`, no attribute, and no start of a function, a struct
\* or an enum.
IsPassedOver(raw) ==
    /\ ~IsStopLine(raw)
    /\ ~Includes(raw, "#[") /\ ~Includes(raw, "]")
    /\ \A w \in {"fn", "struct", "enum"} : ~Includes(raw, w \o " ")

\* C28: when the lines after the cursor are lines of that kind - the opening
\* of an impl or of a trait, a statement, a struct field - followed by an
\* item, the scanner passes over them: it returns a signature, and the
\* signature begins with the item's first line.
OtherLinesPassedOver ==
    (/\ pc = "done" /\ decl.kind = "document"
     /\ decl.item.lines # <<>> /\ decl.blocks # <<>>
     /\ \A k \in 1..Len(decl.blocks) :
           \A j \in 1..Len(decl.blocks[k]) : IsPassedOver(decl.blocks[k][j]))
    => /\ scanned.ok
       /\ FirstCollected = Len(decl.lead) + Len(Flatten(decl.blocks)) + 1
       /\ scanned.lines[1] = Trim(StripLineComment(Trim(decl.item.lines[1])))

\* The scanner has returned an item that stands after the opening of an impl
\* and two further lines.
OtherLinesPassedOverHappens ==
    /\ pc = "done" /\ decl.kind = "document"
    /\ decl.blocks = <<<<"impl Foo {">>, <<"trait T {", "    let x = 5;">>>>
    /\ decl.item.lines # <<>>
    /\ scanned.ok /\ scanned.text = decl.item.sig

\* C29: once a line has been collected the scanner returns a signature, and
\* it returns either at a line that is the terminator of the item's kind or
\* at the end of the document; a function's start line that ends with `}` is
\* no terminator: further lines follow it in the signature unless the
\* document ends with it.
OnlyTerminatorOrEndStopsCollection ==
    (pc = "done" /\ collecting) =>
        /\ scanned.ok
        /\ scanned.lines = signatureLines
        /\ LET last == signatureLines[Len(signatureLines)]
           IN  \/ /\ itemType = "fn" /\ i < Len(buffer)
                  /\ EndsWith(last, "{") \/ EndsWith(last, ";") \/ EndsWith(last, "=>")
               \/ /\ itemType \in {"struct", "enum"} /\ i < Len(buffer)
                  /\ braceDepth = 0 /\ parentDepth = 0
                  /\ EndsWith(last, "}") \/ EndsWith(last, ";")
               \/ i >= Len(buffer)
        /\ (itemType = "fn" /\ EndsWith(signatureLines[1], "}")) =>
              (Len(signatureLines) > 1 \/ FirstCollected = Len(buffer))

\* A function with a one-line body, followed by a bare `}`, a blank line and
\* a later function, has been returned together with those three lines.
OnlyTerminatorOrEndStopsCollectionHappens ==
    /\ pc = "done" /\ collecting /\ itemType = "fn" /\ decl.kind = "document"
    /\ decl.item.lines = <<"fn f() {}">> /\ decl.tail # <<>>
    /\ scanned.text = "fn f() {} } pub fn later() {"

\* C30: a parameter entry without a colon - a receiver - is kept: its bullet
\* stands at its place in `# Arguments`, shows the whole entry as the name and
\* the word undefined as the type, and takes one placeholder slot, so that
\* the next parameter's slot is one higher.
ReceiverShownWithUndefinedType ==
    (Done("fn") /\ Len(decl.params) >= 1 /\ decl.params[1].type = ""
       /\ CommaFree(decl.params)) =>
        /\ result.ok
        /\ LET bullets == SectionBody(result.lines, "# Arguments")
           IN  /\ Len(bullets) = Len(decl.params)
               /\ bullets[1] = Shown(decl.params[1].name, "undefined")
                                  \o " - ${2:Describe this parameter.}"
               /\ \A k \in 2..Len(bullets) :
                     EndsWith(bullets[k], " - ${" \o NumStr(k + 1)
                                             \o ":Describe this parameter.}")

\* A function with the receiver `&mut self` and a second parameter got its
\* template.
ReceiverShownWithUndefinedTypeHappens ==
    /\ Done("fn") /\ result.ok
    /\ Len(decl.params) = 2
    /\ decl.params[1].name = "&mut self" /\ decl.params[2].type = "u8"
    /\ HasSection("# Arguments")

=============================================================================
